---- MODULE Spec2Model ----
(***************************************************************************)
(* ZenithDB storage-and-indexing engine: one Collection (documents map,    *)
(* secondary indexes over a value-ordered btree), its Query evaluation and *)
(* the snapshot file written by MemoryStorage.SaveCollection.              *)
(*                                                                         *)
(* Modelled sources: src/unnamed/part_003 (Collection, first variant),     *)
(* src/database/indexing/index.go (Index with lessIndexEntry),             *)
(* src/database/query/query.go (Query/Condition), src/unnamed/part_006     *)
(* (MemoryStorage).                                                        *)
(***************************************************************************)
EXTENDS Integers, Sequences, FiniteSets, TLC

----------------------------------------------------------------------------
(* Bounds of the model *)

\* number of distinct document ids (id strings are represented by 1..NumIds)
NumIds == 2

\* field values range over 1..MaxVal
MaxVal == 2

\* length of the sequences of calls that are explored
MaxOps == 5

\* largest number of documents handed to one BulkInsert call
MaxBulk == 2

\* length of the sequences of calls that are explored when BulkInsert or Get
\* are among the calls
MaxShortOps == 3

\* number of calls made by the two goroutines that run concurrently
MaxConcOps == 4

\* longest sequence of Find calls with populate explored
MaxPopulateOps == 2

\* number of mutations and index creations whose steps are followed one by
\* one
MaxStepOps == 3

----------------------------------------------------------------------------
(* Values, documents *)

Ids == 1..NumIds

\* the fields a document payload (map[string]interface{}) may carry
Fields == {"f", "g"}

\* dynamic kinds of the interface{} values stored in documents and conditions
DocKinds == {"float64"}

\* a field that is not present in the payload map
NoValue == [k |-> "nil", n |-> 0]

DocValues == [k : DocKinds, n : 1..MaxVal]
\* values of query conditions: the documents' values and an int literal
CondValues == DocValues \cup {[k |-> "int", n |-> 1]}

\* the payloads handed to Insert and Update: f carries any value or is
\* absent, g carries the value 1 or is absent
Payloads ==
    [f : DocValues \cup {NoValue}, g : {NoValue, [k |-> "float64", n |-> 1]}]

\* document.Document{ID, Data}
Document(id, payload) == [ID |-> id, Data |-> payload]

EmptyMap == [x \in {} |-> 0]

\* m[k] = v on a Go map
MapPut(m, k, v) == [x \in DOMAIN m \cup {k} |-> IF x = k THEN v ELSE m[x]]

\* delete(m, k) on a Go map
MapDelete(m, k) == [x \in DOMAIN m \ {k} |-> m[x]]

----------------------------------------------------------------------------
(* indexing.Index over btree.BTreeG[*indexEntry] *)

\* indexing.getFieldValue on a map payload: the value, or NoValue for the
\* "field not found" error
getFieldValue(payload, field) == payload[field]

\* lessIndexEntry type-asserts b.Value to the dynamic type of a.Value: a
\* comparison of two entries of different kinds panics
lessPanics(a, b) == a.Value.k # b.Value.k

\* lessIndexEntry: the order looks at Value only, never at DocID
lessIndexEntry(a, b) == a.Value.n < b.Value.n

\* the btree's notion of "same item": neither is less than the other
sameItem(a, b) == ~lessIndexEntry(a, b) /\ ~lessIndexEntry(b, a)

\* a traversal for entry e compares e with items of the tree; the tree only
\* ever holds one kind, so any comparison panics iff the kinds differ
treePanics(tree, e) == \E x \in tree : lessPanics(x, e)

TreeHas(tree, e) == \E x \in tree : sameItem(x, e)

TreeReplaceOrInsert(tree, e) == {x \in tree : ~sameItem(x, e)} \cup {e}

TreeDelete(tree, e) == {x \in tree : ~sameItem(x, e)}

NewIndex(field, unique) ==
    [Field |-> field, Options |-> [Unique |-> unique], Tree |-> {}]

\* Index.Insert: returns the error and the index after the call
IndexInsert(index, doc) ==
    LET value == getFieldValue(doc.Data, index.Field)
        entry == [Value |-> value, DocID |-> doc.ID]
    IN  IF value = NoValue
        THEN [err |-> "field_not_found", index |-> index]
        ELSE IF treePanics(index.Tree, entry)
        THEN [err |-> "panic", index |-> index]
        ELSE IF index.Options.Unique /\ TreeHas(index.Tree, entry)
        THEN [err |-> "unique_violation", index |-> index]
        ELSE [err |-> "nil",
              index |-> [index EXCEPT !.Tree = TreeReplaceOrInsert(@, entry)]]

\* Index.Delete: returns the error and the index after the call
IndexDelete(index, doc) ==
    LET value == getFieldValue(doc.Data, index.Field)
        entry == [Value |-> value, DocID |-> doc.ID]
    IN  IF value = NoValue
        THEN [err |-> "field_not_found", index |-> index]
        ELSE IF treePanics(index.Tree, entry)
        THEN [err |-> "panic", index |-> index]
        ELSE [err |-> "nil",
              index |-> [index EXCEPT !.Tree = TreeDelete(@, entry)]]

----------------------------------------------------------------------------
(* JSON encoding of payload values *)

\* json.Encoder.Encode of one payload value: an absent map key stays absent,
\* every Go number becomes a JSON
\* number; the digits are exact, whatever the magnitude
EncodeValue(v) == IF v = NoValue THEN NoValue ELSE [v EXCEPT !.k = "number"]

----------------------------------------------------------------------------
(* query.Query *)

Operators == {"=", "!=", ">", ">=", "<", "<="}

\* query.Condition{Field, Operator, Value}
Conditions == [Field : Fields, Operator : Operators, Value : CondValues]

\* the queries submitted to Find, as built by Where: no condition; one
\* condition on f against a value of the documents' kind; f = 1 and f > 1
\* against the int literal; f = v followed by an (in)equality on g
Queries ==
    {<<>>} \cup {<<c>> : c \in {x \in Conditions : /\ x.Field = "f"
                                                   /\ x.Value \in DocValues}}
           \cup {<<c>> : c \in {x \in Conditions : /\ x.Field = "f"
                                                   /\ x.Operator \in {"=", ">"}
                                                   /\ x.Value \notin DocValues}}
           \cup {<<c1, c2>> :
                    c1 \in {x \in Conditions : /\ x.Field = "f"
                                               /\ x.Operator = "="
                                               /\ x.Value \in DocValues},
                    c2 \in {x \in Conditions : /\ x.Field = "g"
                                               /\ x.Operator \in {"=", "!="}
                                               /\ x.Value.k = "float64"
                                               /\ x.Value.n = 1}}

\* gjson's result.Value() of a JSON value: a number is the float64
\* nearest to the digits.  A value with a field e is the number
\* n + e * 2^53: between 2^53 and 2^54 the float64 values are the even
\* numbers, and a tie goes to the even mantissa.
RoundToFloat64(n) ==
    IF n % 2 = 0 THEN n ELSE IF n % 4 = 1 THEN n - 1 ELSE n + 1

DecodeValue(v) ==
    IF v = NoValue THEN NoValue
    ELSE IF "e" \in DOMAIN v
    THEN [k |-> "float64", n |-> RoundToFloat64(v.n), e |-> v.e]
    ELSE [k |-> "float64", n |-> v.n]

\* query.getFieldValue: the payload is marshalled to JSON and the path is
\* read back with gjson; nil when the path does not exist
queryFieldValue(payload, path) == DecodeValue(EncodeValue(payload[path]))

\* compare(a, b) panics in v1.Type() when a is nil (reflect.ValueOf(nil) is
\* the zero Value)
comparePanics(a, b) == a = NoValue

\* compare(a, b): "mismatch" for the type-mismatch error, else the sign
compare(a, b) ==
    IF a.k # b.k THEN "mismatch"
    ELSE IF a.n < b.n THEN "lt"
    ELSE IF a.n > b.n THEN "gt"
    ELSE "eq"

\* Condition.Matches panics exactly when compare does
ConditionPanics(c, doc) ==
    /\ c.Operator \in {">", ">=", "<", "<="}
    /\ comparePanics(queryFieldValue(doc.Data, c.Field), c.Value)

\* Condition.Matches, when it does not panic
ConditionMatches(c, doc) ==
    LET value == queryFieldValue(doc.Data, c.Field)
        result == compare(value, c.Value)
    IN  CASE c.Operator = "="  -> value = c.Value
          [] c.Operator = "!=" -> value # c.Value
          [] c.Operator = ">"  -> result = "gt"
          [] c.Operator = ">=" -> result \in {"gt", "eq"}
          [] c.Operator = "<"  -> result = "lt"
          [] c.Operator = "<=" -> result \in {"lt", "eq"}

\* Query.Matches: "true", "false", or "panic" when a condition panics before
\* any condition has failed
RECURSIVE QueryMatches(_, _)
QueryMatches(q, doc) ==
    IF q = <<>> THEN "true"
    ELSE IF ConditionPanics(Head(q), doc) THEN "panic"
    ELSE IF ~ConditionMatches(Head(q), doc) THEN "false"
    ELSE QueryMatches(Tail(q), doc)

\* Index.CanUseIndex
CanUseIndex(index, q) == \E i \in DOMAIN q : q[i].Field = index.Field

\* the callback scan of AscendGreaterOrEqual in Index.Find over the items
\* not less than the pivot, in ascending order: stops at the first item
\* whose Value differs from value
RECURSIVE ascendCollect(_, _)
ascendCollect(items, value) ==
    IF items = {} THEN {}
    ELSE LET item == CHOOSE x \in items :
                        \A y \in items : ~lessIndexEntry(y, x)
         IN  IF item.Value # value THEN {}
             ELSE {item.DocID} \cup ascendCollect(items \ {item}, value)

\* Index.Find: the doc ids collected for the first condition on the index's
\* field (the condition's operator is not consulted)
IndexFind(index, q) ==
    IF ~CanUseIndex(index, q)
    THEN [err |-> "nil", docIDs |-> {}]
    ELSE LET first == CHOOSE i \in DOMAIN q :
                        /\ q[i].Field = index.Field
                        /\ \A j \in DOMAIN q :
                              q[j].Field = index.Field => i <= j
             value == q[first].Value
             pivot == [Value |-> value, DocID |-> 0]
         IN  IF treePanics(index.Tree, pivot)
             THEN [err |-> "panic", docIDs |-> {}]
             ELSE [err |-> "nil",
                   docIDs |-> ascendCollect(
                       {x \in index.Tree : ~lessIndexEntry(x, pivot)},
                       value)]

----------------------------------------------------------------------------
(* State *)

VARIABLES
    data,       \* Collection.data: map id -> Document
    indexes,    \* Collection.indexes: map field -> Index
    file,       \* the collection's snapshot file in dataDir
    op,         \* the last call and what it returned
    query,      \* the query of the last call, if a Find
    found,      \* ids of the documents returned by the last call, if a Find
    nops,       \* number of calls made so far
    got,        \* the document returned by the last call, if a Get
    stored,     \* the documents handed to the last file write that succeeded;
                \* under SpecGet:
                \* per id, the document of the last Insert/Update that returned
                \* nil, until a Delete of the id returns nil
    mutex,      \* Collection.mutex: held by a writer, number of readers
    wr,         \* the goroutine running a mutation: its call, its position,
                \* the loop index i of BulkInsert, and (data, indexes) as
                \* they were when it took the lock
    rd,         \* the goroutine running Get or Find: its position
    store,      \* MemoryStorage: the names registered in ms.collections, the
                \* name the last storage call was made with, and whether the
                \* process has loaded its collections and not changed them
    twin,       \* a second collection that receives the same calls
    populates,  \* Query.Populates of the last call, if a Find with populate
    msMutex,    \* MemoryStorage.mutex: the goroutine holding it as writer,
                \* the number of readers, the goroutines blocked in Lock
    callers     \* the goroutines calling the storage: their positions

vars == <<data, indexes, file, op, query, found, nops,
          got, stored, mutex, wr, rd, store, twin, populates, msMutex, callers>>

\* what the calls of a single goroutine that are neither Get nor BulkInsert
\* leave alone
aux == <<got, stored, mutex, wr, rd, store, twin, populates, msMutex, callers>>

\* the orders in which `for _, index := range c.indexes` may visit the map
IndexOrders(ixs) ==
    {s \in [1..Cardinality(DOMAIN ixs) -> DOMAIN ixs] :
        \A i, j \in DOMAIN s : i # j => s[i] # s[j]}

----------------------------------------------------------------------------
(* MemoryStorage.SaveCollection *)

EncodeDocs(docs) ==
    [id \in DOMAIN docs |->
        [ID |-> docs[id].ID,
         Data |-> [fl \in Fields |-> EncodeValue(docs[id].Data[fl])]]]

\* outcomes of the file write: success, os.Create fails, Encode fails after
\* os.Create truncated the file
IOOutcomes == {"ok", "create_fail", "encode_fail"}

SaveCollection(docs, io) ==
    CASE io = "ok" ->
            [err |-> "nil",
             file |-> [state |-> "json", docs |-> EncodeDocs(docs)]]
      [] io = "create_fail" ->
            [err |-> "io_error", file |-> file]
      [] io = "encode_fail" ->
            [err |-> "io_error",
             file |-> [state |-> "truncated", docs |-> EmptyMap]]

----------------------------------------------------------------------------
(* Collection: index loops *)

\* the loop `for _, index := range c.indexes { index.Insert(doc) }` of
\* Collection.Insert, visiting the fields of order; stops at the first error
RECURSIVE InsertLoop(_, _, _)
InsertLoop(ixs, order, doc) ==
    IF order = <<>>
    THEN [err |-> "nil", indexes |-> ixs]
    ELSE LET r == IndexInsert(ixs[Head(order)], doc)
         IN  IF r.err # "nil"
             THEN [err |-> r.err, indexes |-> ixs]
             ELSE InsertLoop([ixs EXCEPT ![Head(order)] = r.index],
                             Tail(order), doc)

\* the loop of Collection.Delete
RECURSIVE DeleteLoop(_, _, _)
DeleteLoop(ixs, order, doc) ==
    IF order = <<>>
    THEN [err |-> "nil", indexes |-> ixs]
    ELSE LET r == IndexDelete(ixs[Head(order)], doc)
         IN  IF r.err # "nil"
             THEN [err |-> r.err, indexes |-> ixs]
             ELSE DeleteLoop([ixs EXCEPT ![Head(order)] = r.index],
                             Tail(order), doc)

\* the loop of Collection.Update: Delete(oldDoc) then Insert(doc) per index
RECURSIVE UpdateLoop(_, _, _, _)
UpdateLoop(ixs, order, oldDoc, doc) ==
    IF order = <<>>
    THEN [err |-> "nil", indexes |-> ixs]
    ELSE LET d == IndexDelete(ixs[Head(order)], oldDoc)
             i == IndexInsert(d.index, doc)
         IN  IF d.err # "nil"
             THEN [err |-> d.err, indexes |-> ixs]
             ELSE IF i.err # "nil"
             THEN [err |-> i.err,
                   indexes |-> [ixs EXCEPT ![Head(order)] = d.index]]
             ELSE UpdateLoop([ixs EXCEPT ![Head(order)] = i.index],
                             Tail(order), oldDoc, doc)

\* the loop of Collection.CreateIndex replaying c.data into the new index,
\* visiting the ids of order
RECURSIVE ReplayLoop(_, _, _)
ReplayLoop(index, order, docs) ==
    IF order = <<>>
    THEN [err |-> "nil", index |-> index]
    ELSE LET r == IndexInsert(index, docs[Head(order)])
         IN  IF r.err # "nil"
             THEN [err |-> r.err, index |-> r.index]
             ELSE ReplayLoop(r.index, Tail(order), docs)

\* the orders in which `for _, doc := range c.data` may visit the map
DataOrders(docs) ==
    {s \in [1..Cardinality(DOMAIN docs) -> DOMAIN docs] :
        \A i, j \in DOMAIN s : i # j => s[i] # s[j]}

\* the index loop of Collection.Find, visiting the fields of order: the
\* documents of the first usable index whose ids resolve to at least one
\* live document, "scan" when there is none
RECURSIVE FindLoop(_, _, _, _)
FindLoop(ixs, docs, order, q) ==
    IF order = <<>>
    THEN [err |-> "scan", ids |-> {}]
    ELSE IF ~CanUseIndex(ixs[Head(order)], q)
    THEN FindLoop(ixs, docs, Tail(order), q)
    ELSE LET r == IndexFind(ixs[Head(order)], q)
             foundDocs == r.docIDs \cap DOMAIN docs
         IN  IF r.err # "nil" THEN [err |-> r.err, ids |-> {}]
             ELSE IF foundDocs # {} THEN [err |-> "nil", ids |-> foundDocs]
             ELSE FindLoop(ixs, docs, Tail(order), q)

\* the full scan of Collection.Find
ScanFind(docs, q) ==
    IF \E id \in DOMAIN docs : QueryMatches(q, docs[id]) = "panic"
    THEN [err |-> "panic", ids |-> {}]
    ELSE [err |-> "nil",
          ids |-> {id \in DOMAIN docs : QueryMatches(q, docs[id]) = "true"}]

\* Collection.Find(q) on the collection (ixs, docs)
CollectionFind(ixs, docs, order, q) ==
    LET r == FindLoop(ixs, docs, order, q)
    IN  IF r.err = "scan" THEN ScanFind(docs, q) ELSE r

----------------------------------------------------------------------------
(* Collection operations; each is one critical section of c.mutex *)

Returned(name, id, result, saved) ==
    [name |-> name, id |-> id, result |-> result, saved |-> saved]

\* no document (the nil *document.Document)
NoDoc == [ID |-> 0, Data |-> [fl \in Fields |-> NoValue]]

\* the mutating goroutine: its position, the method it runs, the documents
\* and batch size it was called with
Writer(pc, name, docs, batchSize) ==
    [pc |-> pc, name |-> name, docs |-> docs, batchSize |-> batchSize,
     i |-> 1, pre |-> [data |-> EmptyMap, indexes |-> EmptyMap]]

\* the reading goroutine: its position, and whether its RLock had to wait
\* for a writer
Reader(pc, blocked) == [pc |-> pc, blocked |-> blocked]

\* Collection.Insert(id, doc), called as Insert(doc.ID, doc)
Insert(id, payload, outcomes) ==
    LET doc == Document(id, payload)
    IN  IF id \in DOMAIN data
        THEN /\ op' = Returned("insert", id, "nil", FALSE)
             /\ UNCHANGED <<data, indexes, file>>
        ELSE \E order \in IndexOrders(indexes) :
             LET r == InsertLoop(indexes, order, doc)
             IN  /\ data' = MapPut(data, id, doc)
                 /\ indexes' = r.indexes
                 /\ IF r.err # "nil"
                    THEN /\ file' = file
                         /\ op' = Returned("insert", id, r.err, FALSE)
                    ELSE \E io \in outcomes :
                         LET s == SaveCollection(MapPut(data, id, doc), io)
                         IN  /\ file' = s.file
                             /\ op' = Returned("insert", id, s.err, TRUE)

\* Collection.Delete(id)
Delete(id, outcomes) ==
    IF id \notin DOMAIN data
    THEN /\ op' = Returned("delete", id, "not_found", FALSE)
         /\ UNCHANGED <<data, indexes, file>>
    ELSE \E order \in IndexOrders(indexes) :
         LET r == DeleteLoop(indexes, order, data[id])
         IN  /\ data' = MapDelete(data, id)
             /\ indexes' = r.indexes
             /\ IF r.err # "nil"
                THEN /\ file' = file
                     /\ op' = Returned("delete", id, r.err, FALSE)
                ELSE \E io \in outcomes :
                     LET s == SaveCollection(MapDelete(data, id), io)
                     IN  /\ file' = s.file
                         /\ op' = Returned("delete", id, s.err, TRUE)

\* Update without the existence check: a missing id is stored as if it had
\* been present
UpdateUpsert(id, payload, outcomes) ==
    LET doc == Document(id, payload)
        oldDoc == IF id \in DOMAIN data THEN data[id] ELSE doc
    IN  \E order \in IndexOrders(indexes) :
        LET r == UpdateLoop(indexes, order, oldDoc, doc)
        IN  /\ data' = MapPut(data, id, doc)
            /\ indexes' = r.indexes
            /\ IF r.err # "nil"
               THEN /\ file' = file
                    /\ op' = Returned("update", id, r.err, FALSE)
               ELSE \E io \in outcomes :
                    LET s == SaveCollection(MapPut(data, id, doc), io)
                    IN  /\ file' = s.file
                        /\ op' = Returned("update", id, s.err, TRUE)

\* Collection.Update(id, doc), called as Update(doc.ID, doc)
Update(id, payload, outcomes) ==
    LET doc == Document(id, payload)
    IN  IF id \notin DOMAIN data
        THEN /\ op' = Returned("update", id, "not_found", FALSE)
             /\ UNCHANGED <<data, indexes, file>>
        ELSE \E order \in IndexOrders(indexes) :
             LET r == UpdateLoop(indexes, order, data[id], doc)
             IN  /\ data' = MapPut(data, id, doc)
                 /\ indexes' = r.indexes
                 /\ IF r.err # "nil"
                    THEN /\ file' = file
                         /\ op' = Returned("update", id, r.err, FALSE)
                    ELSE \E io \in outcomes :
                         LET s == SaveCollection(MapPut(data, id, doc), io)
                         IN  /\ file' = s.file
                             /\ op' = Returned("update", id, s.err, TRUE)

\* Collection.CreateIndex(field, options)
CreateIndex(field, unique) ==
    IF field \in DOMAIN indexes
    THEN /\ op' = Returned("create_index", 0, "already_exists", FALSE)
         /\ UNCHANGED <<data, indexes, file>>
    ELSE \E order \in DataOrders(data) :
         LET r == ReplayLoop(NewIndex(field, unique), order, data)
         IN  /\ indexes' = MapPut(indexes, field, r.index)
             /\ op' = Returned("create_index", 0, r.err, FALSE)
             /\ UNCHANGED <<data, file>>

\* Collection.Find(q)
Find(q) ==
    \E order \in IndexOrders(indexes) :
    LET r == CollectionFind(indexes, data, order, q)
    IN  /\ op' = Returned("find", 0, r.err, FALSE)
        /\ query' = q
        /\ found' = r.ids
        /\ UNCHANGED <<data, indexes, file>>

\* Collection.Get(id)
Get(id) ==
    /\ got' = IF id \in DOMAIN data THEN data[id] ELSE NoDoc
    /\ op' = Returned("get", id,
                      IF id \in DOMAIN data THEN "nil" ELSE "not_found", FALSE)
    /\ UNCHANGED <<data, indexes, file>>

----------------------------------------------------------------------------
(* Collection.BulkInsert *)

\* the documents handed to BulkInsert
BulkDocuments ==
    {Document(id, payload) :
        id \in Ids, payload \in {p \in Payloads : p.g = NoValue}}

\* the slices of documents handed to BulkInsert
BulkDocs == UNION {[1..n -> BulkDocuments] : n \in 1..MaxBulk}

\* the batchSize arguments handed to BulkInsert
BatchSizes == 1..MaxBulk

\* Collection.insertDocument(doc) on the documents map docs: an id that is
\* present is skipped and nil is returned
insertDocument(docs, doc) ==
    IF doc.ID \in DOMAIN docs THEN docs ELSE MapPut(docs, doc.ID, doc)

\* the first loop of BulkInsert
RECURSIVE InsertDocuments(_, _)
InsertDocuments(docs, batch) ==
    IF batch = <<>> THEN docs
    ELSE InsertDocuments(insertDocument(docs, Head(batch)), Tail(batch))

\* the second loop of BulkInsert: every document of the call, also a skipped
\* one, is inserted into every index; returns at the first error
RECURSIVE BulkIndexLoop(_, _, _)
BulkIndexLoop(ixs, batch, orders) ==
    IF batch = <<>>
    THEN [err |-> "nil", indexes |-> ixs]
    ELSE LET r == InsertLoop(ixs, Head(orders), Head(batch))
         IN  IF r.err # "nil" THEN r
             ELSE BulkIndexLoop(r.indexes, Tail(batch), Tail(orders))

\* Collection.BulkInsert(docs, batchSize); batchSize is not used
BulkInsert(docs, batchSize, outcomes) ==
    LET inserted == InsertDocuments(data, docs)
    IN  \E io \in outcomes :
        LET s == SaveCollection(inserted, io)
        IN  /\ data' = inserted
            /\ file' = s.file
            /\ wr' = Writer("idle", "bulk_insert", docs, batchSize)
            /\ IF s.err # "nil"
               THEN /\ indexes' = indexes
                    /\ op' = Returned("bulk_insert", 0, s.err, TRUE)
               ELSE \E orders \in [1..Len(docs) -> IndexOrders(indexes)] :
                    LET r == BulkIndexLoop(indexes, docs, orders)
                    IN  /\ indexes' = r.indexes
                        /\ op' = Returned("bulk_insert", 0, r.err, TRUE)

----------------------------------------------------------------------------
(* Specification *)

Init ==
    /\ data = EmptyMap
    /\ indexes = EmptyMap
    /\ file = [state |-> "missing", docs |-> EmptyMap]
    /\ op = Returned("new", 0, "nil", FALSE)
    /\ query = <<>>
    /\ found = {}
    /\ nops = 0
    /\ got = NoDoc
    /\ stored = EmptyMap
    /\ mutex = [writer |-> FALSE, readers |-> 0]
    /\ wr = Writer("idle", "none", <<>>, 0)
    /\ rd = Reader("idle", FALSE)
    /\ store = [collections |-> {}, name |-> "", started |-> FALSE]
    /\ twin = [data |-> EmptyMap, indexes |-> EmptyMap]
    /\ populates = <<>>
    /\ msMutex = [writer |-> "none", readers |-> 0, pending |-> {}]
    /\ callers = [reg |-> "idle", third |-> "idle", call |-> "none"]

\* one more call, while the explored sequence is shorter than MaxOps
Step == nops < MaxOps /\ nops' = nops + 1

\* one more call made by a single goroutine
Call == Step /\ UNCHANGED aux

NoFind == query' = <<>> /\ found' = {}

DoInsert ==
    /\ Call /\ NoFind
    /\ \E id \in Ids, payload \in Payloads : Insert(id, payload, IOOutcomes)

DoDelete ==
    /\ Call /\ NoFind
    /\ \E id \in Ids : Delete(id, IOOutcomes)

DoUpdate ==
    /\ Call /\ NoFind
    /\ \E id \in Ids, payload \in Payloads : Update(id, payload, IOOutcomes)

DoCreateIndex ==
    /\ Call /\ NoFind
    /\ \E field \in Fields, unique \in BOOLEAN : CreateIndex(field, unique)

\* the mutations and index creations of one collection, every file write
\* succeeding or failing
Next ==
    \/ DoInsert
    \/ DoDelete
    \/ DoUpdate
    \/ DoCreateIndex

Spec == Init /\ [][Next]_vars

----------------------------------------------------------------------------
(* Queries over the collection.  A failed file write leaves data and       *)
(* indexes as a successful one does, so the collections that Find can meet *)
(* are those built with successful writes.                                 *)

WInsert ==
    /\ Call /\ NoFind
    /\ \E id \in Ids, payload \in Payloads : Insert(id, payload, {"ok"})

WDelete ==
    /\ Call /\ NoFind
    /\ \E id \in Ids : Delete(id, {"ok"})

WUpdate ==
    /\ Call /\ NoFind
    /\ \E id \in Ids, payload \in Payloads : Update(id, payload, {"ok"})

DoFind ==
    /\ Call
    /\ \E q \in Queries : Find(q)

NextFind ==
    \/ WInsert
    \/ WDelete
    \/ WUpdate
    \/ DoCreateIndex
    \/ DoFind

SpecFind == Init /\ [][NextFind]_vars

----------------------------------------------------------------------------
(* The collection when every file write succeeds *)

NextDurable ==
    \/ WInsert
    \/ WDelete
    \/ WUpdate
    \/ DoCreateIndex

SpecDurable == Init /\ [][NextDurable]_vars

----------------------------------------------------------------------------
(* Sequences of calls that all return nil *)

OkInsert == DoInsert /\ op'.result = "nil"

OkDelete == DoDelete /\ op'.result = "nil"

OkUpdate == DoUpdate /\ op'.result = "nil"

OkCreateIndex == DoCreateIndex /\ op'.result = "nil"

NextOk ==
    \/ OkInsert
    \/ OkDelete
    \/ OkUpdate
    \/ OkCreateIndex

SpecOk == Init /\ [][NextOk]_vars

----------------------------------------------------------------------------
(* The collection with BulkInsert; the file writes of BulkInsert succeed or *)
(* fail, those of the other calls succeed                                   *)

\* one more call of a short sequence
ShortStep == nops < MaxShortOps /\ nops' = nops + 1

DoBulkInsert ==
    /\ ShortStep /\ NoFind
    /\ UNCHANGED <<got, stored, store, twin, populates, msMutex, callers, mutex, rd>>
    /\ \E docs \in BulkDocs, batchSize \in BatchSizes :
          BulkInsert(docs, batchSize, IOOutcomes)

BInsert == nops < MaxShortOps /\ WInsert

BDelete == nops < MaxShortOps /\ WDelete

BUpdate == nops < MaxShortOps /\ WUpdate

BCreateIndex == nops < MaxShortOps /\ DoCreateIndex

NextBulk ==
    \/ BInsert
    \/ BDelete
    \/ BUpdate
    \/ BCreateIndex
    \/ DoBulkInsert

SpecBulk == Init /\ [][NextBulk]_vars

----------------------------------------------------------------------------
(* Get after mutations, with a record of what the calls that returned nil  *)
(* have stored                                                              *)

GInsert ==
    /\ ShortStep /\ NoFind
    /\ UNCHANGED <<got, mutex, wr, rd, store, twin, populates, msMutex, callers>>
    /\ \E id \in Ids, payload \in Payloads :
          /\ Insert(id, payload, IOOutcomes)
          /\ stored' = IF op'.result = "nil"
                       THEN MapPut(stored, id, Document(id, payload))
                       ELSE stored

GUpdate ==
    /\ ShortStep /\ NoFind
    /\ UNCHANGED <<got, mutex, wr, rd, store, twin, populates, msMutex, callers>>
    /\ \E id \in Ids, payload \in Payloads :
          /\ Update(id, payload, IOOutcomes)
          /\ stored' = IF op'.result = "nil"
                       THEN MapPut(stored, id, Document(id, payload))
                       ELSE stored

GDelete ==
    /\ ShortStep /\ NoFind
    /\ UNCHANGED <<got, mutex, wr, rd, store, twin, populates, msMutex, callers>>
    /\ \E id \in Ids :
          /\ Delete(id, IOOutcomes)
          /\ stored' = IF op'.result = "nil"
                       THEN MapDelete(stored, id)
                       ELSE stored

DoGet ==
    /\ ShortStep /\ NoFind
    /\ UNCHANGED <<stored, store, twin, populates, msMutex, callers, mutex, wr, rd>>
    /\ \E id \in Ids : Get(id)

NextGet ==
    \/ GInsert
    \/ GUpdate
    \/ GDelete
    \/ BCreateIndex
    \/ DoGet

SpecGet == Init /\ [][NextGet]_vars

----------------------------------------------------------------------------
(* Two collections receiving the same calls: the collection itself, whose  *)
(* index on "f" is created after the calls, and twin, whose index on "f"   *)
(* was created while it was empty.  Every file write succeeds.             *)

\* what Collection.Insert leaves in memory in the collection c
InsertOn(c, doc, order) ==
    IF doc.ID \in DOMAIN c.data
    THEN c
    ELSE [data |-> MapPut(c.data, doc.ID, doc),
          indexes |-> InsertLoop(c.indexes, order, doc).indexes]

\* what Collection.Update leaves in memory in the collection c
UpdateOn(c, doc, order) ==
    IF doc.ID \notin DOMAIN c.data
    THEN c
    ELSE [data |-> MapPut(c.data, doc.ID, doc),
          indexes |-> UpdateLoop(c.indexes, order, c.data[doc.ID],
                                 doc).indexes]

\* what Collection.Delete leaves in memory in the collection c
DeleteOn(c, id, order) ==
    IF id \notin DOMAIN c.data
    THEN c
    ELSE [data |-> MapDelete(c.data, id),
          indexes |-> DeleteLoop(c.indexes, order, c.data[id]).indexes]

InitReplay ==
    /\ data = EmptyMap
    /\ indexes = EmptyMap
    /\ file = [state |-> "missing", docs |-> EmptyMap]
    /\ op = Returned("new", 0, "nil", FALSE)
    /\ query = <<>>
    /\ found = {}
    /\ nops = 0
    /\ got = NoDoc
    /\ stored = EmptyMap
    /\ mutex = [writer |-> FALSE, readers |-> 0]
    /\ wr = Writer("idle", "none", <<>>, 0)
    /\ rd = Reader("idle", FALSE)
    /\ store = [collections |-> {}, name |-> "", started |-> FALSE]
    /\ populates = <<>>
    /\ msMutex = [writer |-> "none", readers |-> 0, pending |-> {}]
    /\ callers = [reg |-> "idle", third |-> "idle", call |-> "none"]
    /\ \E unique \in BOOLEAN :
          twin = [data |-> EmptyMap,
                  indexes |-> MapPut(EmptyMap, "f", NewIndex("f", unique))]

ReplayFrame == UNCHANGED <<got, stored, mutex, wr, rd, store, populates, msMutex, callers>>

ReplayInsert ==
    /\ Step /\ NoFind /\ ReplayFrame
    /\ "f" \notin DOMAIN indexes
    /\ \E id \in Ids, payload \in Payloads :
          /\ Insert(id, payload, {"ok"})
          /\ \E order \in IndexOrders(twin.indexes) :
                twin' = InsertOn(twin, Document(id, payload), order)

ReplayUpdate ==
    /\ Step /\ NoFind /\ ReplayFrame
    /\ "f" \notin DOMAIN indexes
    /\ \E id \in Ids, payload \in Payloads :
          /\ Update(id, payload, {"ok"})
          /\ \E order \in IndexOrders(twin.indexes) :
                twin' = UpdateOn(twin, Document(id, payload), order)

ReplayDelete ==
    /\ Step /\ NoFind /\ ReplayFrame
    /\ "f" \notin DOMAIN indexes
    /\ \E id \in Ids :
          /\ Delete(id, {"ok"})
          /\ \E order \in IndexOrders(twin.indexes) :
                twin' = DeleteOn(twin, id, order)

\* the index on "f" is created after the calls, with the options of twin's
ReplayCreateIndex ==
    /\ Step /\ NoFind /\ ReplayFrame
    /\ "f" \notin DOMAIN indexes
    /\ CreateIndex("f", twin.indexes["f"].Options.Unique)
    /\ twin' = twin

NextReplay ==
    \/ ReplayInsert
    \/ ReplayUpdate
    \/ ReplayDelete
    \/ ReplayCreateIndex

SpecReplay == InitReplay /\ [][NextReplay]_vars

----------------------------------------------------------------------------
(* MemoryStorage and ZenithDB.  data, indexes and file are the collection   *)
(* "products"; the collection "categories" has no documents and no file.   *)

CollectionNames == {"products", "categories"}

\* the file of a collection in dataDir
FileOf(name) ==
    IF name = "products" THEN file ELSE [state |-> "missing", docs |-> EmptyMap]

\* json.Decoder.Decode into map[string]*document.Document
DecodeDocs(docs) ==
    [id \in DOMAIN docs |->
        [ID |-> docs[id].ID,
         Data |-> [fl \in Fields |-> DecodeValue(docs[id].Data[fl])]]]

\* MemoryStorage.LoadCollection on the file f: a file that does not exist is
\* an empty map, a file of zero bytes makes Decode return io.EOF
LoadCollection(f) ==
    CASE f.state = "missing" -> [err |-> "nil", data |-> EmptyMap]
      [] f.state = "truncated" -> [err |-> "decode_error", data |-> EmptyMap]
      [] f.state = "json" -> [err |-> "nil", data |-> DecodeDocs(f.docs)]

Storage(collections, name, started) ==
    [collections |-> collections, name |-> name, started |-> started]

\* MemoryStorage.LoadAndCreateCollection(name)
LoadAndCreateCollection(name) ==
    LET r == LoadCollection(FileOf(name))
    IN  /\ op' = Returned("load", 0, r.err, FALSE)
        /\ file' = file
        /\ IF r.err # "nil"
           THEN /\ store' = Storage(store.collections, name, FALSE)
                /\ UNCHANGED <<data, indexes>>
           ELSE /\ store' = Storage(store.collections \cup {name}, name, FALSE)
                /\ IF name = "products"
                   THEN data' = r.data /\ indexes' = EmptyMap
                   ELSE UNCHANGED <<data, indexes>>

\* a new process: NewMemoryStorage, then MemoryStorage.LoadExistingCollections
\* over the files of dataDir
LoadExistingCollections ==
    LET r == LoadCollection(file)
    IN  /\ file' = file
        /\ indexes' = EmptyMap
        /\ IF file.state = "missing"
           THEN /\ op' = Returned("load_all", 0, "nil", FALSE)
                /\ store' = Storage({}, "", TRUE)
                /\ data' = EmptyMap
           ELSE IF r.err # "nil"
           THEN /\ op' = Returned("load_all", 0, r.err, FALSE)
                /\ store' = Storage({}, "products", FALSE)
                /\ data' = EmptyMap
           ELSE /\ op' = Returned("load_all", 0, "nil", FALSE)
                /\ store' = Storage({"products"}, "products", TRUE)
                /\ data' = r.data

\* MemoryStorage.CreateCollection(name)
StorageCreateCollection(name) ==
    /\ file' = file
    /\ IF name \in store.collections
       THEN /\ op' = Returned("storage_create", 0, "already_exists", FALSE)
            /\ store' = Storage(store.collections, name, store.started)
            /\ UNCHANGED <<data, indexes>>
       ELSE /\ op' = Returned("storage_create", 0, "nil", FALSE)
            /\ store' = Storage(store.collections \cup {name}, name, FALSE)
            /\ IF name = "products"
               THEN data' = EmptyMap /\ indexes' = EmptyMap
               ELSE UNCHANGED <<data, indexes>>

\* ZenithDB.CreateCollection(name): the error of storage.GetCollection, which
\* is returned for every name that is not registered, ends the call
CreateCollection(name) ==
    /\ op' = Returned("create_collection", 0,
                      IF name \in store.collections
                      THEN "nil" ELSE "collection_not_found", FALSE)
    /\ store' = Storage(store.collections, name, store.started)
    /\ UNCHANGED <<data, indexes, file>>

\* ZenithDB.GetCollection(name)
GetCollection(name) ==
    /\ op' = Returned("get_collection", 0,
                      IF name \in store.collections
                      THEN "nil" ELSE "collection_not_found", FALSE)
    /\ store' = Storage(store.collections, name, store.started)
    /\ UNCHANGED <<data, indexes, file>>

\* the replay loop of Collection.CreateIndexes: an error of index.Insert is
\* printed and the loop goes on
RECURSIVE ReplayAll(_, _, _)
ReplayAll(index, order, docs) ==
    IF order = <<>>
    THEN index
    ELSE LET r == IndexInsert(index, docs[Head(order)])
         IN  ReplayAll(IF r.err = "nil" THEN r.index ELSE index,
                       Tail(order), docs)

\* Collection.CreateIndexes(fields, collection); orders gives, per field, the
\* order in which the replay visits c.data
RECURSIVE CreateIndexes(_, _, _, _)
CreateIndexes(ixs, docs, fields, orders) ==
    IF fields = <<>>
    THEN ixs
    ELSE LET fl == Head(fields)
         IN  CreateIndexes(
                 IF fl \in DOMAIN ixs
                 THEN ixs
                 ELSE MapPut(ixs, fl,
                             ReplayAll(NewIndex(fl, FALSE), orders[fl], docs)),
                 docs, Tail(fields), orders)

\* the field lists RegisterIndex is called with
FieldLists == {<<"f">>, <<"g">>, <<"f", "g">>}

\* MemoryStorage.RegisterIndex(collectionName, fields) for "products"
RegisterIndex(fields) ==
    /\ op' = Returned("register_index", 0, "nil", FALSE)
    /\ store' = Storage(store.collections, "products", store.started)
    /\ UNCHANGED <<data, file>>
    /\ IF "products" \notin store.collections
       THEN indexes' = indexes
       ELSE \E orders \in [Fields -> DataOrders(data)] :
                indexes' = CreateIndexes(indexes, data, fields, orders)

StoreFrame == UNCHANGED <<got, mutex, wr, rd, twin, populates, msMutex, callers>>

\* Collection.Insert on "products", obtained from the storage
StoreInsert(payloads) ==
    /\ "products" \in store.collections
    /\ store' = Storage(store.collections, "products", FALSE)
    /\ \E id \in Ids, payload \in payloads :
          /\ Insert(id, payload, IOOutcomes)
          /\ stored' = IF op'.saved /\ op'.result = "nil"
                       THEN data' ELSE stored

DoStoreInsert ==
    /\ Step /\ NoFind /\ StoreFrame
    /\ StoreInsert(Payloads)

DoStorageCreateCollection ==
    /\ Step /\ NoFind /\ StoreFrame
    /\ stored' = stored
    /\ \E name \in CollectionNames : StorageCreateCollection(name)

DoCreateCollection ==
    /\ Step /\ NoFind /\ StoreFrame
    /\ stored' = stored
    /\ \E name \in CollectionNames : CreateCollection(name)

DoGetCollection ==
    /\ Step /\ NoFind /\ StoreFrame
    /\ stored' = stored
    /\ \E name \in CollectionNames : GetCollection(name)

DoLoadAndCreateCollection ==
    /\ Step /\ NoFind /\ StoreFrame
    /\ stored' = stored
    /\ \E name \in CollectionNames : LoadAndCreateCollection(name)

DoLoadExistingCollections ==
    /\ Step /\ NoFind /\ StoreFrame
    /\ stored' = stored
    /\ LoadExistingCollections

DoRegisterIndex ==
    /\ Step /\ NoFind /\ StoreFrame
    /\ stored' = stored
    /\ \E fields \in FieldLists : RegisterIndex(fields)

NextStore ==
    \/ DoStorageCreateCollection
    \/ DoCreateCollection
    \/ DoGetCollection
    \/ DoStoreInsert
    \/ DoLoadAndCreateCollection
    \/ DoLoadExistingCollections
    \/ DoRegisterIndex

SpecStore == Init /\ [][NextStore]_vars

----------------------------------------------------------------------------
(* Saving and loading payloads of every numeric kind; no index is created   *)

\* Go numbers stored in payloads: float64 and int, small or above 2^53; a
\* value with a field e is the number n + e * 2^53
BigOffsets == 0..3

RoundTripValues ==
    DocValues \cup {[k |-> "int", n |-> 1]}
              \cup {[k |-> "int", n |-> d, e |-> 1] : d \in BigOffsets}

RoundTripPayloads ==
    {[f |-> v, g |-> NoValue] : v \in RoundTripValues \cup {NoValue}}

RtInsert ==
    /\ Step /\ NoFind /\ StoreFrame
    /\ StoreInsert(RoundTripPayloads)

NextRoundTrip ==
    \/ DoStorageCreateCollection
    \/ RtInsert
    \/ DoLoadAndCreateCollection
    \/ DoLoadExistingCollections

SpecRoundTrip == Init /\ [][NextRoundTrip]_vars

----------------------------------------------------------------------------
(* Find with populate.  The documents of "products" hold, at the reference *)
(* fields, the id of a document of another collection; every other         *)
(* collection that is registered holds the documents of RelatedIds.        *)

RelatedNames == {"categories", "brands"}

RelatedIds == {"c1"}

RefFields == {"r1", "r2"}

OutputFields == {"o1", "o2"}

StringValue(str) == [k |-> "string", s |-> str]

\* what a document holds at a reference field: the id of a related document
\* that exists, one that does not, a number, or nothing
RefValues ==
    {StringValue("c1"), StringValue("c2"), [k |-> "float64", n |-> 1], NoValue}

\* Data of the documents of "products" before any populate
RefPayloads ==
    {[r1 |-> a, r2 |-> b, o1 |-> NoValue, o2 |-> NoValue] :
        a \in RefValues, b \in {StringValue("c1"), NoValue}}

\* Data of the document id of the collection name
RelatedData(name, id) == [k |-> "document", collection |-> name, id |-> id]

\* query.Populate
Populate(field, collection, outputField) ==
    [Field |-> field, Collection |-> collection, OutputField |-> outputField]

\* the directives a query is built with by Query.Populate
MaxPopulates == 2

PopulateLists ==
    UNION {[1..n -> {Populate(fl, name, out) : fl \in RefFields,
                                               name \in RelatedNames,
                                               out \in OutputFields}] :
           n \in 1..MaxPopulates}

\* Query.GetPopulateFields
GetPopulateFields(pops) == [i \in DOMAIN pops |-> pops[i].Field]

\* Query.GetRelatedCollection
GetRelatedCollection(pops) == IF Len(pops) > 0 THEN pops[1].Collection ELSE ""

\* Query.GetPopulatedOutputField
GetPopulatedOutputField(pops) ==
    IF Len(pops) > 0 THEN pops[1].OutputField ELSE ""

\* Collection.populateDocument on the map d = doc.Data, which the loop
\* changes in place: the error and the map after the call.  The assertion
\* data[field].(string) panics on a missing key and on a number.
RECURSIVE populateDocument(_, _, _, _, _)
populateDocument(d, fields, collection, outputField, registered) ==
    IF fields = <<>>
    THEN [err |-> "nil", data |-> d]
    ELSE IF collection \notin registered
    THEN [err |-> "collection_not_found", data |-> d]
    ELSE LET v == d[Head(fields)]
         IN  IF v.k # "string"
             THEN [err |-> "panic", data |-> d]
             ELSE IF v.s \notin RelatedIds
             THEN [err |-> "related_not_found", data |-> d]
             ELSE populateDocument(
                      [d EXCEPT ![outputField] = RelatedData(collection, v.s)],
                      Tail(fields), collection, outputField, registered)

\* the loop of Collection.Find over the documents returned by the storage
RECURSIVE PopulateLoop(_, _, _, _)
PopulateLoop(docs, order, pops, registered) ==
    IF order = <<>>
    THEN [err |-> "nil", docs |-> docs]
    ELSE LET id == Head(order)
             r == populateDocument(docs[id].Data, GetPopulateFields(pops),
                                   GetRelatedCollection(pops),
                                   GetPopulatedOutputField(pops), registered)
             after == [docs EXCEPT ![id].Data = r.data]
         IN  IF r.err # "nil"
             THEN [err |-> r.err, docs |-> after]
             ELSE PopulateLoop(after, Tail(order), pops, registered)

\* Collection.Find(q) of ZenithDB for a query without conditions and with
\* the directives pops
PopulateFind(pops) ==
    \E order \in DataOrders(data) :
    LET r == PopulateLoop(data, order, pops, store.collections)
    IN  /\ data' = r.docs
        /\ op' = Returned("find_populate", 0, r.err, FALSE)
        /\ found' = IF r.err = "nil" THEN DOMAIN data ELSE {}
        /\ query' = <<>>
        /\ populates' = pops
        /\ UNCHANGED <<indexes, file>>

InitPopulate ==
    /\ indexes = EmptyMap
    /\ file = [state |-> "missing", docs |-> EmptyMap]
    /\ op = Returned("new", 0, "nil", FALSE)
    /\ query = <<>>
    /\ found = {}
    /\ nops = 0
    /\ got = NoDoc
    /\ stored = EmptyMap
    /\ mutex = [writer |-> FALSE, readers |-> 0]
    /\ wr = Writer("idle", "none", <<>>, 0)
    /\ rd = Reader("idle", FALSE)
    /\ twin = [data |-> EmptyMap, indexes |-> EmptyMap]
    /\ populates = <<>>
    /\ msMutex = [writer |-> "none", readers |-> 0, pending |-> {}]
    /\ callers = [reg |-> "idle", third |-> "idle", call |-> "none"]
    /\ \E names \in SUBSET RelatedNames :
          store = Storage({"products"} \cup names, "", FALSE)
    /\ \E ids \in SUBSET Ids :
          \E payloads \in [ids -> RefPayloads] :
              data = [id \in ids |-> Document(id, payloads[id])]

DoPopulateFind ==
    /\ nops < MaxPopulateOps /\ nops' = nops + 1
    /\ UNCHANGED <<got, stored, mutex, wr, rd, store, twin, msMutex, callers>>
    /\ \E pops \in PopulateLists : PopulateFind(pops)

NextPopulate == DoPopulateFind

SpecPopulate == InitPopulate /\ [][NextPopulate]_vars

----------------------------------------------------------------------------
(* Two goroutines on one collection: one runs Insert, Update, Delete,       *)
(* BulkInsert and CreateIndex, the other runs Get and Find.  A step is what *)
(* a goroutine does between two points where the other can observe it; the *)
(* file writes succeed.                                                     *)

\* one more call by either goroutine
ConcStep == nops < MaxConcOps /\ nops' = nops + 1

\* c.mutex is held by nobody
MutexFree == ~mutex.writer /\ mutex.readers = 0

\* Insert, Update, Delete: c.mutex.Lock() returns
CLock ==
    /\ ConcStep
    /\ wr.pc = "idle"
    /\ MutexFree
    /\ mutex' = [mutex EXCEPT !.writer = TRUE]
    /\ \E name \in {"insert", "update", "delete"}, id \in Ids :
       \E doc \in IF name = "delete" THEN {Document(id, NoDoc.Data)}
                                     ELSE {d \in BulkDocuments : d.ID = id} :
          wr' = [Writer("locked", name, <<doc>>, 0)
                    EXCEPT !.pre = [data |-> data, indexes |-> indexes]]
    /\ UNCHANGED <<data, indexes, file, op, query, found, got, stored, store, twin, populates, msMutex, callers, rd>>

\* Insert, Update, Delete: the existence check and the change of c.data
CPut ==
    /\ wr.pc = "locked"
    /\ LET doc == wr.docs[1]
           id == doc.ID
           missing == "not_found"
       IN  CASE wr.name = "insert" ->
                  IF id \in DOMAIN data
                  THEN /\ op' = Returned("insert", id, "nil", FALSE)
                       /\ wr' = [wr EXCEPT !.pc = "unlock"]
                       /\ data' = data
                  ELSE /\ data' = MapPut(data, id, doc)
                       /\ wr' = [wr EXCEPT !.pc = "index"]
                       /\ op' = op
             [] wr.name = "update" ->
                  IF id \notin DOMAIN data
                  THEN /\ op' = Returned("update", id, missing, FALSE)
                       /\ wr' = [wr EXCEPT !.pc = "unlock"]
                       /\ data' = data
                  ELSE /\ data' = MapPut(data, id, doc)
                       /\ wr' = [wr EXCEPT !.pc = "index"]
                       /\ op' = op
             [] wr.name = "delete" ->
                  IF id \notin DOMAIN data
                  THEN /\ op' = Returned("delete", id, missing, FALSE)
                       /\ wr' = [wr EXCEPT !.pc = "unlock"]
                       /\ data' = data
                  ELSE /\ data' = MapDelete(data, id)
                       /\ wr' = [wr EXCEPT !.pc = "index"]
                       /\ op' = op
    /\ UNCHANGED <<indexes, file, query, found, nops, got, stored, store, twin, populates, msMutex, callers, mutex, rd>>

\* the loop over c.indexes when c.mutex.Unlock() is not deferred: an error
\* of an index returns with the lock held
CIndexKeepsLock ==
    /\ wr.pc = "index"
    /\ \E order \in IndexOrders(indexes) :
       LET doc == wr.docs[1]
           id == doc.ID
           r == CASE wr.name = "insert" -> InsertLoop(indexes, order, doc)
                  [] wr.name = "update" ->
                        UpdateLoop(indexes, order, wr.pre.data[id], doc)
                  [] wr.name = "delete" ->
                        DeleteLoop(indexes, order, wr.pre.data[id])
       IN  /\ indexes' = r.indexes
           /\ IF r.err # "nil"
              THEN /\ op' = Returned(wr.name, id, r.err, FALSE)
                   /\ wr' = [wr EXCEPT !.pc = "idle"]
              ELSE /\ op' = op
                   /\ wr' = [wr EXCEPT !.pc = "save"]
    /\ UNCHANGED <<data, file, query, found, nops, got, stored, store, twin, populates, msMutex, callers, mutex, rd>>

\* Insert, Update, Delete: the loop over c.indexes
CIndex ==
    /\ wr.pc = "index"
    /\ \E order \in IndexOrders(indexes) :
       LET doc == wr.docs[1]
           id == doc.ID
           r == CASE wr.name = "insert" -> InsertLoop(indexes, order, doc)
                  [] wr.name = "update" ->
                        UpdateLoop(indexes, order, wr.pre.data[id], doc)
                  [] wr.name = "delete" ->
                        DeleteLoop(indexes, order, wr.pre.data[id])
       IN  /\ indexes' = r.indexes
           /\ IF r.err # "nil"
              THEN /\ op' = Returned(wr.name, id, r.err, FALSE)
                   /\ wr' = [wr EXCEPT !.pc = "unlock"]
              ELSE /\ op' = op
                   /\ wr' = [wr EXCEPT !.pc = "save"]
    /\ UNCHANGED <<data, file, query, found, nops, got, stored, store, twin, populates, msMutex, callers, mutex, rd>>

\* Insert, Update, Delete: c.db.SaveCollection(c.Name, c.data)
CSave ==
    /\ wr.pc = "save"
    /\ LET s == SaveCollection(data, "ok")
       IN  /\ file' = s.file
           /\ op' = Returned(wr.name, wr.docs[1].ID, s.err, TRUE)
    /\ wr' = [wr EXCEPT !.pc = "unlock"]
    /\ UNCHANGED <<data, indexes, query, found, nops, got, stored, store, twin, populates, msMutex, callers, mutex, rd>>

\* Insert, Update, Delete: the deferred c.mutex.Unlock(), which hands the
\* lock to a reader blocked in RLock
CUnlock ==
    /\ wr.pc = "unlock"
    /\ wr' = [wr EXCEPT !.pc = "idle"]
    /\ IF rd.pc = "rlock"
       THEN /\ rd' = Reader("read", TRUE)
            /\ mutex' = [writer |-> FALSE, readers |-> mutex.readers + 1]
       ELSE /\ rd' = rd
            /\ mutex' = [mutex EXCEPT !.writer = FALSE]
    /\ UNCHANGED <<data, indexes, file, op, query, found, nops, got, stored, store, twin, populates, msMutex, callers>>

\* CreateIndex holds c.mutex from its first to its last statement
CCreateIndex ==
    /\ nops < MaxConcOps
    /\ wr.pc = "idle"
    /\ MutexFree
    /\ DoCreateIndex

\* BulkInsert is called; it takes no lock of its own
CBulkBegin ==
    /\ ConcStep
    /\ wr.pc = "idle"
    /\ \E docs \in BulkDocs, batchSize \in BatchSizes :
          wr' = Writer("bulk_put", "bulk_insert", docs, batchSize)
    /\ UNCHANGED <<data, indexes, file, op, query, found, got, stored, store, twin, populates, msMutex, callers, mutex,
                   rd>>

\* BulkInsert, first loop: one insertDocument call, which takes and releases
\* c.mutex
CBulkPut ==
    /\ wr.pc = "bulk_put"
    /\ MutexFree
    /\ data' = insertDocument(data, wr.docs[wr.i])
    /\ wr' = IF wr.i = Len(wr.docs)
             THEN [wr EXCEPT !.pc = "bulk_save", !.i = 1]
             ELSE [wr EXCEPT !.i = @ + 1]
    /\ UNCHANGED <<indexes, file, op, query, found, nops, got, stored, store, twin, populates, msMutex, callers, mutex,
                   rd>>

\* BulkInsert: c.db.SaveCollection(c.Name, c.data), c.mutex not held
CBulkSave ==
    /\ wr.pc = "bulk_save"
    /\ file' = SaveCollection(data, "ok").file
    /\ wr' = [wr EXCEPT !.pc = "bulk_index", !.i = 1]
    /\ UNCHANGED <<data, indexes, op, query, found, nops, got, stored, store, twin, populates, msMutex, callers, mutex,
                   rd>>

\* BulkInsert, second loop: one document is inserted into every index,
\* c.mutex not held
CBulkIndex ==
    /\ wr.pc = "bulk_index"
    /\ \E order \in IndexOrders(indexes) :
       LET r == InsertLoop(indexes, order, wr.docs[wr.i])
       IN  /\ indexes' = r.indexes
           /\ IF r.err # "nil"
              THEN /\ op' = Returned("bulk_insert", 0, r.err, TRUE)
                   /\ wr' = [wr EXCEPT !.pc = "idle"]
              ELSE IF wr.i = Len(wr.docs)
              THEN /\ op' = Returned("bulk_insert", 0, "nil", TRUE)
                   /\ wr' = [wr EXCEPT !.pc = "idle"]
              ELSE /\ op' = op
                   /\ wr' = [wr EXCEPT !.i = @ + 1]
    /\ UNCHANGED <<data, file, query, found, nops, got, stored, store, twin, populates, msMutex, callers, mutex, rd>>

\* Get or Find is called: c.mutex.RLock() returns, or blocks while a writer
\* holds the lock
RCall ==
    /\ ConcStep
    /\ rd.pc = "idle"
    /\ IF mutex.writer
       THEN /\ rd' = Reader("rlock", TRUE)
            /\ mutex' = mutex
       ELSE /\ rd' = Reader("read", FALSE)
            /\ mutex' = [mutex EXCEPT !.readers = @ + 1]
    /\ UNCHANGED <<data, indexes, file, op, query, found, got, stored, store, twin, populates, msMutex, callers, wr>>

\* the queries the reading goroutine submits
ConcQueries == {<<c>> : c \in {x \in Conditions : /\ x.Field = "f"
                                                  /\ x.Operator = "="
                                                  /\ x.Value \in DocValues}}

\* Get reads c.data and returns, releasing the read lock
RGet ==
    /\ rd.pc = "read"
    /\ \E id \in Ids : Get(id)
    /\ rd' = Reader("idle", FALSE)
    /\ mutex' = [mutex EXCEPT !.readers = @ - 1]
    /\ UNCHANGED <<query, found, nops, stored, store, twin, populates, msMutex, callers, wr>>

\* Find reads c.indexes and c.data and returns, releasing the read lock
RFind ==
    /\ rd.pc = "read"
    /\ \E q \in ConcQueries : Find(q)
    /\ rd' = Reader("idle", FALSE)
    /\ mutex' = [mutex EXCEPT !.readers = @ - 1]
    /\ UNCHANGED <<nops, got, stored, store, twin, populates, msMutex, callers, wr>>

NextConc ==
    \/ CLock
    \/ CPut
    \/ CIndex
    \/ CSave
    \/ CUnlock
    \/ CCreateIndex
    \/ CBulkBegin
    \/ CBulkPut
    \/ CBulkSave
    \/ CBulkIndex
    \/ RCall
    \/ RGet
    \/ RFind

SpecConc == Init /\ [][NextConc]_vars

----------------------------------------------------------------------------
(* The steps of Insert, Update and Delete followed one by one, the file     *)
(* write succeeding or failing, with CreateIndex as the other user of       *)
(* c.mutex.  A goroutine that holds the lock keeps running.                 *)

\* Insert, Update, Delete: c.mutex.Lock() returns
StepLock ==
    /\ nops < MaxStepOps /\ nops' = nops + 1
    /\ wr.pc = "idle"
    /\ MutexFree
    /\ mutex' = [mutex EXCEPT !.writer = TRUE]
    /\ \E name \in {"insert", "update", "delete"}, id \in Ids :
       \E doc \in IF name = "delete" THEN {Document(id, NoDoc.Data)}
                                     ELSE {d \in BulkDocuments : d.ID = id} :
          wr' = [Writer("locked", name, <<doc>>, 0)
                    EXCEPT !.pre = [data |-> data, indexes |-> indexes]]
    /\ UNCHANGED <<data, indexes, file, op, query, found, got, stored, store,
                   twin, populates, msMutex, callers, rd>>

\* Insert, Update, Delete: c.db.SaveCollection(c.Name, c.data), which
\* succeeds or fails
StepSave ==
    /\ wr.pc = "save"
    /\ \E io \in IOOutcomes :
       LET s == SaveCollection(data, io)
       IN  /\ file' = s.file
           /\ op' = Returned(wr.name, wr.docs[1].ID, s.err, TRUE)
    /\ wr' = [wr EXCEPT !.pc = "unlock"]
    /\ UNCHANGED <<data, indexes, query, found, nops, got, stored, store,
                   twin, populates, msMutex, callers, mutex, rd>>

\* CreateIndex holds c.mutex from its first to its last statement
StepCreateIndex ==
    /\ nops < MaxStepOps
    /\ wr.pc = "idle"
    /\ MutexFree
    /\ DoCreateIndex

NextSteps ==
    \/ StepLock
    \/ CPut
    \/ CIndex
    \/ StepSave
    \/ CUnlock
    \/ StepCreateIndex

SpecSteps ==
    /\ Init /\ [][NextSteps]_vars
    /\ WF_vars(CPut) /\ WF_vars(CIndex) /\ WF_vars(StepSave)
    /\ WF_vars(CUnlock)

----------------------------------------------------------------------------
(* The storage lock: MemoryStorage.mutex, a sync.RWMutex, together with    *)
(* c.mutex of "products".  Three goroutines call the storage: the mutator  *)
(* (wr) runs Insert, Update or Delete, the registrar runs RegisterIndex,   *)
(* the third runs CreateCollection or GetCollection.  A Lock or RLock      *)
(* that cannot return leaves its goroutine where it is; a goroutine        *)
(* blocked in Lock keeps every later RLock from returning.                 *)

\* ms.mutex.Lock() returns: no writer and no reader holds the lock
MsCanLock == msMutex.writer = "none" /\ msMutex.readers = 0

\* ms.mutex.RLock() returns: no writer holds the lock or waits for it
MsCanRLock == msMutex.writer = "none" /\ msMutex.pending = {}

\* the storage after NewMemoryStorage and CreateCollection("products")
InitLocks ==
    /\ data = EmptyMap
    /\ indexes = EmptyMap
    /\ file = [state |-> "missing", docs |-> EmptyMap]
    /\ op = Returned("storage_create", 0, "nil", FALSE)
    /\ query = <<>>
    /\ found = {}
    /\ nops = 0
    /\ got = NoDoc
    /\ stored = EmptyMap
    /\ mutex = [writer |-> FALSE, readers |-> 0]
    /\ wr = Writer("idle", "none", <<>>, 0)
    /\ rd = Reader("idle", FALSE)
    /\ store = Storage({"products"}, "products", FALSE)
    /\ twin = [data |-> EmptyMap, indexes |-> EmptyMap]
    /\ populates = <<>>
    /\ msMutex = [writer |-> "none", readers |-> 0, pending |-> {}]
    /\ callers = [reg |-> "idle", third |-> "idle", call |-> "none"]

\* SaveCollection: ms.mutex.Lock() is called with c.mutex held
SaveLock ==
    /\ wr.pc = "save"
    /\ IF MsCanLock
       THEN /\ msMutex' = [msMutex EXCEPT !.writer = "mutator"]
            /\ wr' = [wr EXCEPT !.pc = "write"]
       ELSE /\ msMutex' = [msMutex EXCEPT !.pending = @ \cup {"mutator"}]
            /\ wr' = [wr EXCEPT !.pc = "save_wait"]
    /\ UNCHANGED <<data, indexes, file, op, query, found, nops, got, stored,
                   store, twin, populates, callers, mutex, rd>>

\* SaveCollection: the blocked ms.mutex.Lock() returns
SaveAcquire ==
    /\ wr.pc = "save_wait"
    /\ MsCanLock
    /\ msMutex' = [msMutex EXCEPT !.writer = "mutator",
                                  !.pending = @ \ {"mutator"}]
    /\ wr' = [wr EXCEPT !.pc = "write"]
    /\ UNCHANGED <<data, indexes, file, op, query, found, nops, got, stored,
                   store, twin, populates, callers, mutex, rd>>

\* SaveCollection: the file is written and the deferred ms.mutex.Unlock()
\* runs
SaveWrite ==
    /\ wr.pc = "write"
    /\ \E io \in IOOutcomes :
       LET s == SaveCollection(data, io)
       IN  /\ file' = s.file
           /\ op' = Returned(wr.name, wr.docs[1].ID, s.err, TRUE)
    /\ msMutex' = [msMutex EXCEPT !.writer = "none"]
    /\ wr' = [wr EXCEPT !.pc = "unlock"]
    /\ UNCHANGED <<data, indexes, query, found, nops, got, stored, store,
                   twin, populates, callers, mutex, rd>>

\* RegisterIndex is called: ms.mutex.RLock()
RegRLock ==
    /\ nops < MaxStepOps /\ nops' = nops + 1
    /\ callers.reg = "idle"
    /\ IF MsCanRLock
       THEN /\ msMutex' = [msMutex EXCEPT !.readers = @ + 1]
            /\ callers' = [callers EXCEPT !.reg = "get"]
       ELSE /\ msMutex' = msMutex
            /\ callers' = [callers EXCEPT !.reg = "rlock_wait"]
    /\ UNCHANGED <<data, indexes, file, op, query, found, got, stored, store,
                   twin, populates, mutex, wr, rd>>

\* RegisterIndex: the blocked ms.mutex.RLock() returns
RegRLockAcquire ==
    /\ callers.reg = "rlock_wait"
    /\ MsCanRLock
    /\ msMutex' = [msMutex EXCEPT !.readers = @ + 1]
    /\ callers' = [callers EXCEPT !.reg = "get"]
    /\ UNCHANGED <<data, indexes, file, op, query, found, nops, got, stored,
                   store, twin, populates, mutex, wr, rd>>

\* RegisterIndex: ms.GetCollection(collectionName), which takes
\* ms.mutex.RLock() a second time and releases it; an unknown name is
\* printed and the call returns through the deferred RUnlock
RegGetCollection ==
    /\ callers.reg = "get"
    /\ MsCanRLock
    /\ IF "products" \in store.collections
       THEN /\ callers' = [callers EXCEPT !.reg = "create_indexes"]
            /\ UNCHANGED <<msMutex, op>>
       ELSE /\ callers' = [callers EXCEPT !.reg = "idle"]
            /\ msMutex' = [msMutex EXCEPT !.readers = @ - 1]
            /\ op' = Returned("register_index", 0, "nil", FALSE)
    /\ UNCHANGED <<data, indexes, file, query, found, nops, got, stored,
                   store, twin, populates, mutex, wr, rd>>

\* RegisterIndex: collection.CreateIndexes(fields, collectionName) under
\* c.mutex.Lock(), then the deferred ms.mutex.RUnlock()
RegCreateIndexes ==
    /\ callers.reg = "create_indexes"
    /\ MutexFree
    /\ \E fields \in FieldLists, orders \in [Fields -> DataOrders(data)] :
          indexes' = CreateIndexes(indexes, data, fields, orders)
    /\ op' = Returned("register_index", 0, "nil", FALSE)
    /\ msMutex' = [msMutex EXCEPT !.readers = @ - 1]
    /\ callers' = [callers EXCEPT !.reg = "idle"]
    /\ UNCHANGED <<data, file, query, found, nops, got, stored, store, twin,
                   populates, mutex, wr, rd>>

\* the calls of the third goroutine
ThirdCalls == {"create_collection", "get_collection"}

\* the third goroutine calls CreateCollection or GetCollection of the storage
ThirdCall ==
    /\ nops < MaxStepOps /\ nops' = nops + 1
    /\ callers.third = "idle"
    /\ \E call \in ThirdCalls :
          callers' = [callers EXCEPT !.third = "lock", !.call = call]
    /\ UNCHANGED <<data, indexes, file, op, query, found, got, stored, store,
                   twin, populates, msMutex, mutex, wr, rd>>

\* CreateCollection: ms.mutex.Lock() does not return at once
ThirdLock ==
    /\ callers.third = "lock"
    /\ callers.call = "create_collection"
    /\ ~MsCanLock
    /\ msMutex' = [msMutex EXCEPT !.pending = @ \cup {"third"}]
    /\ callers' = [callers EXCEPT !.third = "lock_wait"]
    /\ UNCHANGED <<data, indexes, file, op, query, found, nops, got, stored,
                   store, twin, populates, mutex, wr, rd>>

\* CreateCollection: ms.mutex.Lock() returns; GetCollection:
\* ms.mutex.RLock() returns
ThirdAcquire ==
    /\ callers.third \in {"lock", "lock_wait"}
    /\ IF callers.call = "create_collection"
       THEN /\ MsCanLock
            /\ msMutex' = [msMutex EXCEPT !.writer = "third",
                                          !.pending = @ \ {"third"}]
       ELSE /\ MsCanRLock
            /\ msMutex' = [msMutex EXCEPT !.readers = @ + 1]
    /\ callers' = [callers EXCEPT !.third = "held"]
    /\ UNCHANGED <<data, indexes, file, op, query, found, nops, got, stored,
                   store, twin, populates, mutex, wr, rd>>

\* CreateCollection, GetCollection: the map is changed or read and the
\* deferred unlock runs
ThirdReturn ==
    /\ callers.third = "held"
    /\ IF callers.call = "create_collection"
       THEN /\ \E name \in CollectionNames : StorageCreateCollection(name)
            /\ msMutex' = [msMutex EXCEPT !.writer = "none"]
       ELSE /\ \E name \in CollectionNames : GetCollection(name)
            /\ msMutex' = [msMutex EXCEPT !.readers = @ - 1]
    /\ callers' = [callers EXCEPT !.third = "idle"]
    /\ UNCHANGED <<query, found, nops, got, stored, twin, populates, mutex,
                   wr, rd>>

NextLocks ==
    \/ StepLock
    \/ CPut
    \/ CIndex
    \/ SaveLock
    \/ SaveAcquire
    \/ SaveWrite
    \/ CUnlock
    \/ RegRLock
    \/ RegRLockAcquire
    \/ RegGetCollection
    \/ RegCreateIndexes
    \/ ThirdCall
    \/ ThirdLock
    \/ ThirdAcquire
    \/ ThirdReturn

SpecLocks == InitLocks /\ [][NextLocks]_vars

----------------------------------------------------------------------------
(* Properties *)

\* the ids an equality lookup for value v returns from the index on fl
Lookup(ixs, fl, v) ==
    IndexFind(ixs[fl], <<[Field |-> fl, Operator |-> "=", Value |-> v]>>).docIDs

\* the document has a value at every indexed field
HasIndexedFields(ixs, doc) ==
    \A fl \in DOMAIN ixs : doc.Data[fl] # NoValue

\* C1 (index completeness): after any sequence of successful calls, for every
\* index on a field fl and every live document d that has fl, an equality
\* lookup on that index for d's value of fl returns a set containing d's id,
\* also when several live documents share the value.
C1_IndexComplete ==
    \A fl \in DOMAIN indexes : \A id \in DOMAIN data :
        data[id].Data[fl] # NoValue =>
            id \in Lookup(indexes, fl, data[id].Data[fl])

\* C2 (no stale index entries): after every completed insert, update or
\* delete, successful or not, no index holds an entry whose doc id is absent
\* from the documents map or whose value differs from the current value of
\* that field in the live document.
C2_NoStaleEntries ==
    \A fl \in DOMAIN indexes : \A e \in indexes[fl].Tree :
        /\ e.DocID \in DOMAIN data
        /\ data[e.DocID].Data[fl] = e.Value

\* C3 (index transparency): a Find that returns normally returns the ids that
\* the same Find returns on the same documents with no index at all.
C3_IndexTransparency ==
    (op.name = "find" /\ op.result = "nil") =>
        LET scan == CollectionFind(EmptyMap, data, <<>>, query)
        IN  scan.err = "nil" /\ found = scan.ids

\* C4 (re-validation of index candidates): every document returned by Find(q)
\* satisfies all conditions of q.
C4_FoundDocsMatch ==
    (op.name = "find" /\ op.result = "nil") =>
        \A id \in found : QueryMatches(query, data[id]) = "true"

\* C5 (duplicate insert): Insert with an id already in the documents map
\* returns an error and leaves documents, indexes and file unchanged.
C5_DuplicateInsertRejected ==
    [][(op'.name = "insert" /\ op'.id \in DOMAIN data) =>
            /\ op'.result # "nil"
            /\ UNCHANGED <<data, indexes, file>>]_vars

\* C6 (update of a missing id): Update for an id not in the documents map
\* fails with not-found, leaves documents and indexes unchanged and performs
\* no file write.
C6_UpdateMissingNoEffect ==
    [][(op'.name = "update" /\ op'.id \notin DOMAIN data) =>
            /\ op'.result = "not_found"
            /\ ~op'.saved
            /\ UNCHANGED <<data, indexes, file>>]_vars

\* reached: an Update of a missing id has returned not-found on a collection
\* that holds a document, an index and a written file
C6_Witness ==
    /\ op.name = "update"
    /\ op.result = "not_found"
    /\ data # EmptyMap
    /\ \E fl \in DOMAIN indexes : indexes[fl].Tree # {}
    /\ file.state = "json"

\* C7 (delete): Delete of an absent id fails with not-found and changes
\* nothing; Delete of a present id whose document has every indexed field
\* succeeds, after which the id is not in the documents map and no index
\* contains an entry for it.
C7_Delete ==
    [][op'.name = "delete" =>
            IF op'.id \notin DOMAIN data
            THEN /\ op'.result = "not_found"
                 /\ UNCHANGED <<data, indexes, file>>
            ELSE HasIndexedFields(indexes, data[op'.id]) =>
                    /\ op'.result = "nil"
                    /\ op'.id \notin DOMAIN data'
                    /\ \A fl \in DOMAIN indexes' :
                          \A e \in indexes'[fl].Tree : e.DocID # op'.id]_vars

\* C8 (uniqueness): with a unique index on fl and a live document d1 with
\* fl = v, inserting a different document with fl = v fails with the
\* unique-constraint error, after which the entry (v, d1) is in the index and
\* a lookup for v returns exactly {d1}.
C8_Uniqueness ==
    [][(/\ op'.name = "insert"
        /\ op'.id \notin DOMAIN data
        /\ op'.id \in DOMAIN data')
        => \A fl \in DOMAIN indexes : \A d1 \in DOMAIN data :
              (/\ indexes[fl].Options.Unique
               /\ data[d1].Data[fl] # NoValue
               /\ data'[op'.id].Data[fl] = data[d1].Data[fl]
               /\ HasIndexedFields(indexes, data'[op'.id]))
              => /\ op'.result = "unique_violation"
                 /\ [Value |-> data[d1].Data[fl], DocID |-> d1]
                        \in indexes'[fl].Tree
                 /\ Lookup(indexes', fl, data[d1].Data[fl]) = {d1}]_vars

\* C9 (all-or-nothing on index failure): when an index update fails during
\* Insert or Update, the call returns the error and the documents map is the
\* same as before the call.
C9_IndexFailureRollsBack ==
    [][(/\ op'.name \in {"insert", "update"}
        /\ op'.result \in {"unique_violation", "field_not_found"})
        => data' = data]_vars

\* C10 (all-or-nothing on persistence failure): when the file write fails
\* during Insert, Update or Delete, the call returns the error and the
\* documents map and all indexes equal their values before the call.
C10_WriteFailureRollsBack ==
    [][(/\ op'.name \in {"insert", "update", "delete"}
        /\ op'.result = "io_error")
        => (data' = data /\ indexes' = indexes)]_vars

\* C11 (snapshot agreement): whenever no mutation holds the collection's
\* exclusive lock, the persisted snapshot equals the documents map (same
\* ids, same payloads), after any sequence of Insert, Update, Delete and
\* BulkInsert calls, failed ones included.
C11_SnapshotAgreement ==
    ~mutex.writer =>
        IF file.state = "json"
        THEN file.docs = EncodeDocs(data)
        ELSE data = EmptyMap

\* the documents map and indexes after Collection.Insert was called for each
\* document of batch in turn, the indexes visited in the given orders
RECURSIVE SequentialInserts(_, _, _, _)
SequentialInserts(docs, ixs, batch, orders) ==
    IF batch = <<>>
    THEN [data |-> docs, indexes |-> ixs]
    ELSE IF Head(batch).ID \in DOMAIN docs
    THEN SequentialInserts(docs, ixs, Tail(batch), Tail(orders))
    ELSE SequentialInserts(
            MapPut(docs, Head(batch).ID, Head(batch)),
            InsertLoop(ixs, Head(orders), Head(batch)).indexes,
            Tail(batch), Tail(orders))

\* the documents of batch have pairwise distinct ids, none of them in docs
FreshDistinct(docs, batch) ==
    /\ \A i \in DOMAIN batch : batch[i].ID \notin DOMAIN docs
    /\ \A i, j \in DOMAIN batch : i # j => batch[i].ID # batch[j].ID

\* C13 (bulk insert correctness): BulkInsert of documents with pairwise
\* distinct ids, none already present, leaves each of them retrievable by
\* Get, and for every batch size the documents map and every index equal
\* those produced by sequential Insert calls of the same documents.
C13_BulkEqualsSequential ==
    [][(op'.name = "bulk_insert" /\ FreshDistinct(data, wr'.docs)) =>
            /\ \A i \in DOMAIN wr'.docs :
                  /\ wr'.docs[i].ID \in DOMAIN data'
                  /\ data'[wr'.docs[i].ID] = wr'.docs[i]
            /\ \E orders \in [DOMAIN wr'.docs -> IndexOrders(indexes)] :
                  LET r == SequentialInserts(data, indexes, wr'.docs, orders)
                  IN  data' = r.data /\ indexes' = r.indexes]_vars

\* C14 (bulk insert duplicate reporting): a BulkInsert given a document whose
\* id equals that of another document of the call or of a document already
\* in the collection returns an error; it never returns nil.
C14_BulkReportsDuplicate ==
    [][(op'.name = "bulk_insert" /\ ~FreshDistinct(data, wr'.docs)) =>
            op'.result # "nil"]_vars

\* C15 (bulk insert atomicity): when BulkInsert has returned, with nil or
\* with an error, every document of the call that is in the documents map
\* has its entry in every index on a field it carries and is in the
\* persisted snapshot.
C15_BulkNoPartialDocs ==
    op.name = "bulk_insert" =>
        \A i \in DOMAIN wr.docs :
            LET doc == wr.docs[i]
            IN  (doc.ID \in DOMAIN data /\ data[doc.ID] = doc) =>
                    /\ \A fl \in DOMAIN indexes :
                          doc.Data[fl] # NoValue =>
                            [Value |-> doc.Data[fl], DocID |-> doc.ID]
                                \in indexes[fl].Tree
                    /\ file.state = "json"
                    /\ doc.ID \in DOMAIN file.docs
                    /\ file.docs[doc.ID] = EncodeDocs(data)[doc.ID]

\* the index entries of document id are those of its document in the map
IndexesAgree(ixs, docs, id) ==
    \A fl \in DOMAIN ixs :
        {e \in ixs[fl].Tree : e.DocID = id} =
            IF id \in DOMAIN docs /\ docs[id].Data[fl] # NoValue
            THEN {[Value |-> docs[id].Data[fl], DocID |-> id]}
            ELSE {}

\* C12 (reader isolation for single-document mutations): a Get or Find that
\* runs concurrently with an Insert, Update or Delete observes the documents
\* map and the indexes either both as they were before the mutation or both
\* changed: never the map changed while an index is not, nor the reverse.
C12_ReaderIsolation ==
    (/\ rd.pc = "read" /\ rd.blocked
     /\ wr.pc = "idle"
     /\ wr.name \in {"insert", "update", "delete"}
     /\ op.name = wr.name /\ op.id = wr.docs[1].ID)
    => IF data = wr.pre.data
       THEN indexes = wr.pre.indexes
       ELSE IndexesAgree(indexes, data, op.id)

\* C16 (reader isolation for bulk insert): a Get or Find that runs
\* concurrently with BulkInsert never observes a document of the call in the
\* documents map while the document is missing from an index on one of its
\* fields.
C16_BulkReaderIsolation ==
    (rd.pc = "read" /\ wr.name = "bulk_insert" /\ wr.pc # "idle") =>
        \A i \in DOMAIN wr.docs :
            LET doc == wr.docs[i]
            IN  (doc.ID \in DOMAIN data /\ data[doc.ID] = doc) =>
                    \A fl \in DOMAIN indexes :
                        doc.Data[fl] # NoValue =>
                            \E e \in indexes[fl].Tree : e.DocID = doc.ID

\* C17 (persistence under the writer lock): whenever a call is about to
\* write the collection's snapshot, it holds the collection's exclusive lock.
C17_SaveUnderLock ==
    wr.pc \in {"save", "bulk_save"} => mutex.writer

\* the number a stands in relation operator to the number b
Related(operator, a, b) ==
    CASE operator = ">"  -> a > b
      [] operator = ">=" -> a >= b
      [] operator = "<"  -> a < b
      [] operator = "<=" -> a <= b

\* C18 (range conditions on an indexed field): with an index on f, a Find
\* with the single condition f op v, op one of >, >=, <, <=, returns exactly
\* the documents whose value of f stands in relation op to v, also when a
\* document has f equal to v.
C18_IndexedRange ==
    (/\ op.name = "find" /\ op.result = "nil"
     /\ Len(query) = 1
     /\ query[1].Operator \in {">", ">=", "<", "<="}
     /\ query[1].Field \in DOMAIN indexes)
    => found = {id \in DOMAIN data :
                  /\ data[id].Data[query[1].Field] # NoValue
                  /\ Related(query[1].Operator,
                             data[id].Data[query[1].Field].n,
                             query[1].Value.n)}

\* C19 (not-equal is never served by an index): with an index on f, a Find
\* with the condition f != v returns every document whose value of f
\* differs from v and no document whose value of f equals v.
C19_IndexedNotEqual ==
    (/\ op.name = "find" /\ op.result = "nil"
     /\ Len(query) = 1
     /\ query[1].Operator = "!="
     /\ query[1].Field \in DOMAIN indexes)
    => /\ \A id \in found :
             data[id].Data[query[1].Field] # query[1].Value
       /\ \A id \in DOMAIN data :
             (/\ data[id].Data[query[1].Field] # NoValue
              /\ data[id].Data[query[1].Field] # query[1].Value)
             => id \in found

\* C20 (get): Get(id) returns the document most recently stored under id by
\* an Insert or Update that returned nil, and fails with not-found exactly
\* when no such call stored the id or a Delete removed it since.
C20_GetReturnsStored ==
    op.name = "get" =>
        IF op.id \in DOMAIN stored
        THEN op.result = "nil" /\ got = stored[op.id]
        ELSE op.result = "not_found"

\* C25 (create index): CreateIndex on a field that has an index fails with
\* the already-exists error and leaves that index as it is; on a field
\* without an index it registers an index that holds an entry for every
\* document of the collection that carries the field.
C25_CreateIndex ==
    [][op'.name = "create_index" =>
            IF DOMAIN indexes' = DOMAIN indexes
            THEN /\ op'.result = "already_exists"
                 /\ indexes' = indexes
            ELSE /\ op'.result # "already_exists"
                 /\ \A fl \in DOMAIN indexes' \ DOMAIN indexes :
                       \A id \in DOMAIN data :
                           data[id].Data[fl] # NoValue =>
                             [Value |-> data[id].Data[fl], DocID |-> id]
                                 \in indexes'[fl].Tree]_vars

\* C29 (Query.Matches is total): for every document and every condition
\* with an ordering operator, when the document's value at the field is
\* absent or of another kind than the condition value, the condition is
\* false and nothing is raised; the query without conditions matches every
\* document.
C29_MatchesTotal ==
    \A id \in DOMAIN data :
        /\ QueryMatches(<<>>, data[id]) = "true"
        /\ \A c \in Conditions :
              LET value == queryFieldValue(data[id].Data, c.Field)
              IN  (/\ c.Operator \in {">", ">=", "<", "<="}
                   /\ (value = NoValue \/ value.k # c.Value.k))
                  => QueryMatches(<<c>>, data[id]) = "false"

\* C30 (delete of a document that lacks an indexed field): Delete of a
\* present document that lacks a field covered by some index returns nil,
\* removes the document from the map and its entries from every index, and
\* writes the file.
C30_DeleteLackingField ==
    [][(/\ op'.name = "delete"
        /\ op'.id \in DOMAIN data
        /\ ~HasIndexedFields(indexes, data[op'.id]))
        => /\ op'.result = "nil"
           /\ op'.id \notin DOMAIN data'
           /\ \A fl \in DOMAIN indexes' :
                 \A e \in indexes'[fl].Tree : e.DocID # op'.id
           /\ op'.saved
           /\ file'.docs = EncodeDocs(data')]_vars

\* C26: after any sequence of inserts, updates and deletes, the index on
\* "f" created at the end holds the same (value, doc id) entries as the index
\* on "f" of the collection that had it from the start and received the same
\* sequence.
C26_ReplayEquivalence ==
    (op.name = "create_index" /\ "f" \in DOMAIN indexes)
        => indexes["f"].Tree = twin.indexes["f"].Tree

\* the number a payload value stands for, whatever its Go kind
Number(v) ==
    IF v = NoValue THEN <<"absent">>
    ELSE <<v.n, IF "e" \in DOMAIN v THEN v.e ELSE 0>>

\* C21 (round trip): the documents loaded from a file written by a save that
\* succeeded have the ids and the payload values of the documents saved.
C21_RoundTrip ==
    (/\ op.name \in {"load", "load_all"}
     /\ store.name = "products"
     /\ op.result = "nil"
     /\ file.state = "json")
        => /\ DOMAIN data = DOMAIN stored
           /\ \A id \in DOMAIN data :
                 /\ data[id].ID = stored[id].ID
                 /\ \A fl \in Fields :
                       Number(data[id].Data[fl]) = Number(stored[id].Data[fl])

\* C22 (startup load): once the process has loaded its collections and
\* registered its indexes, the collection of a persisted file is registered,
\* holds exactly the documents of the file, and every document is found by a
\* lookup of its value in each index.
C22_StartupLoad ==
    (store.started /\ file.state # "missing")
        => /\ "products" \in store.collections
           /\ EncodeDocs(data) = file.docs
           /\ \A fl \in DOMAIN indexes :
                 \A id \in DOMAIN data :
                     data[id].Data[fl] # NoValue =>
                         id \in Lookup(indexes, fl, data[id].Data[fl])

\* C23 (missing or empty file): loading a collection whose file is missing or
\* has zero bytes returns no error and an empty document set.
C23_MissingOrEmptyFile ==
    (/\ op.name \in {"load", "load_all"}
     /\ store.name \in CollectionNames
     /\ FileOf(store.name).state \in {"missing", "truncated"})
        => /\ op.result = "nil"
           /\ store.name \in store.collections
           /\ store.name = "products" => data = EmptyMap

\* C24 (create_collection): CreateCollection(name) returns nil and leaves name
\* registered; it registers a fresh empty collection when name was not
\* registered, and leaves documents and indexes unchanged when it was;
\* GetCollection(name) returns nil exactly for the registered names.
C24_CreateIdempotent ==
    [][/\ op'.name = "create_collection" =>
            /\ op'.result = "nil"
            /\ store'.name \in store'.collections
            /\ store'.name \in store.collections =>
                    data' = data /\ indexes' = indexes
            /\ (store'.name \notin store.collections
                    /\ store'.name = "products") =>
                    data' = EmptyMap /\ indexes' = EmptyMap
       /\ op'.name = "get_collection" =>
            (op'.result = "nil" <=> store'.name \in store.collections)]_vars

\* C27 (population result): when a Find with populate returns nil, every
\* returned document holds, under the output field of every directive, the
\* data of the document of that directive's collection whose id the document
\* has at that directive's field, and its reference fields are unchanged.
C27_PopulationResult ==
    [][(op'.name = "find_populate" /\ op'.result = "nil")
        => \A id \in found' :
              /\ \A fl \in RefFields : data'[id].Data[fl] = data[id].Data[fl]
              /\ \A i \in DOMAIN populates' :
                    LET p == populates'[i]
                        ref == data[id].Data[p.Field]
                    IN  /\ ref.k = "string"
                        /\ data'[id].Data[p.OutputField]
                              = RelatedData(p.Collection, ref.s)]_vars

\* a directive cannot be resolved for the document doc
PopulationFails(p, doc, registered) ==
    \/ p.Collection \notin registered
    \/ doc.Data[p.Field].k # "string"
    \/ doc.Data[p.Field].s \notin RelatedIds

\* C28 (population failure): when a directive cannot be resolved for some
\* document of the collection, the Find returns an error and no document,
\* and does not panic.
C28_PopulationFailure ==
    [][(/\ op'.name = "find_populate"
        /\ \E id \in DOMAIN data : \E i \in DOMAIN populates' :
              PopulationFails(populates'[i], data[id], store.collections))
        => /\ op'.result \in {"collection_not_found", "related_not_found"}
           /\ found' = {}]_vars

\* C31 (idempotent re-insert): BulkInsert hands every document of the call
\* to index.Insert, also one it skipped because its id is present.  When the
\* (value, doc id) entry of such a document is already in every index, the
\* insert into the index succeeds and leaves the indexes as they were,
\* whether or not the index is unique.
C31_ReinsertIdempotent ==
    [][(/\ op'.name = "bulk_insert"
        /\ op'.result # "io_error"
        /\ Len(wr'.docs) = 1
        /\ wr'.docs[1].ID \in DOMAIN data
        /\ DOMAIN indexes # {}
        /\ \A fl \in DOMAIN indexes :
              [Value |-> wr'.docs[1].Data[fl], DocID |-> wr'.docs[1].ID]
                  \in indexes[fl].Tree)
        => /\ op'.result = "nil"
           /\ indexes' = indexes]_vars

\* C37 (delete and update touch only their own entry): a Delete or Update of
\* a present document leaves in every index every entry that belongs to
\* another document id, also one with the same field value.
C37_OtherEntriesKept ==
    [][(op'.name \in {"delete", "update"} /\ op'.id \in DOMAIN data)
        => \A fl \in DOMAIN indexes :
              \A e \in indexes[fl].Tree :
                  e.DocID # op'.id => e \in indexes'[fl].Tree]_vars

\* C38 (failed index creation leaves no trace): a CreateIndex that fails
\* while replaying the documents leaves the collection without an index on
\* that field: the registered indexes are those of before the call.
C38_FailedCreateIndexNoTrace ==
    [][(op'.name = "create_index"
            /\ op'.result \notin {"nil", "already_exists"})
        => indexes' = indexes]_vars

\* no index serves the query: no index is on a field of the query, or the
\* documents that the usable indexes lead to are none
ScanFallback(ixs, docs, q) ==
    \A fl \in DOMAIN ixs :
        CanUseIndex(ixs[fl], q) =>
            /\ IndexFind(ixs[fl], q).err = "nil"
            /\ IndexFind(ixs[fl], q).docIDs \cap DOMAIN docs = {}

\* C35 (scan fallback): when no index serves the query, Find returns exactly
\* the documents of the map that the query matches.
C35_ScanFallback ==
    (op.name = "find" /\ ScanFallback(indexes, data, query))
        => /\ op.result = "nil"
           /\ found = {id \in DOMAIN data :
                          QueryMatches(query, data[id]) = "true"}

\* C36 (find is read-only): a Find, with or without populate, leaves the
\* documents map with the payloads of its documents, the indexes and the
\* file as they were, so that a Get returns the payload it returned before.
C36_FindReadOnly ==
    [][op'.name \in {"find", "find_populate"}
        => /\ data' = data
           /\ indexes' = indexes
           /\ file' = file]_vars

\* the positions a mutation passes through, in the order it may pass
StepSuccessors ==
    {<<"idle", "locked">>, <<"locked", "index">>, <<"locked", "unlock">>,
     <<"index", "save">>, <<"index", "unlock">>, <<"save", "unlock">>,
     <<"unlock", "idle">>}

RunningCallers ==
    {g \in {"mutator", "registrar", "third"} :
        CASE g = "mutator" -> wr.pc # "idle"
          [] g = "registrar" -> callers.reg # "idle"
          [] g = "third" -> callers.third # "idle"}

\* the goroutine is inside Lock or RLock of a lock that cannot be given to it
BlockedCaller(g) ==
    CASE g = "mutator" -> wr.pc = "save_wait" /\ ~MsCanLock
      [] g = "registrar" ->
            \/ callers.reg \in {"rlock_wait", "get"} /\ ~MsCanRLock
            \/ callers.reg = "create_indexes" /\ ~MutexFree
      [] g = "third" ->
            \/ callers.third = "lock_wait" /\ ~MsCanLock
            \/ /\ callers.third = "lock"
               /\ callers.call = "get_collection"
               /\ ~MsCanRLock

\* C32 (independence of the storage lock): no document mutation acquires the
\* lock that guards the collection-name map, so that a CreateCollection or
\* GetCollection call never waits for an Insert, Update or Delete in
\* progress: the mutator neither holds ms.mutex nor waits for it.
C32_StorageLockIndependent ==
    /\ msMutex.writer # "mutator"
    /\ "mutator" \notin msMutex.pending

\* C34 (deadlock freedom between the storage lock and the collection lock):
\* with a caller in RegisterIndex, a caller in Insert, Update or Delete on
\* the same collection and a third caller of the storage, no reachable state
\* has every caller that is inside a call waiting for a lock held by another.
C34_NoDeadlock ==
    ~(/\ RunningCallers # {}
      /\ \A g \in RunningCallers : BlockedCaller(g))

====
